---- MODULE Spec2Model ----
(***************************************************************************)
(* A model of bridge::DigitalInput (the transition tracker) and of         *)
(* bridge::meta::Wrap (the callback trampoline) of leomol/virtual-tracker. *)
(*                                                                         *)
(* Spec      one DigitalInput on one pin: the constructor, the edge        *)
(*           interrupt routine OnChange, the poll operation Step split at  *)
(*           every point where the interrupt routine can preempt it, and   *)
(*           the destructor.                                               *)
(* SpecFair  Spec with a Step call that, once begun, keeps running.        *)
(* SpecMasked Spec with a caller that may suspend interrupt delivery       *)
(*           before it calls Step.                                         *)
(* SpecLoop  Step and OnChange of an instance late in its life, over the   *)
(*           whole range of the counters.                                  *)
(* SpecWrap  the trampoline table: Wrap calls and calls of the entry       *)
(*           points Wrap returned.                                         *)
(* SpecMulti several interrupt-driven inputs registered through Wrap.      *)
(***************************************************************************)
EXTENDS Integers, Sequences, FiniteSets, TLC

(***************************************************************************)
(* Bounds of the model.                                                    *)
(***************************************************************************)
\* Physical edges of the line in one behaviour.
MaxEdges == 3
\* Step calls are counted up to this number (the counter saturates).
MaxSteps == 3
\* User tokens (the data argument of the FunctionData constructor): 1..MaxToken.
MaxToken == 1
\* Values an uninitialised asyncCount may hold: 0..MaxGarbage.
MaxGarbage == 1
\* Wrap calls followed after uid has left the table.
MaxWild == 2
\* asyncCount and syncCount are uint32_t.  The numbers of the model checker
\* end at 2^31 - 1, so the counters are unsigned counters of CounterBits bits:
\* the same modular arithmetic with a nearer wrap.
CounterBits == 5

(***************************************************************************)
(* Program constants.                                                      *)
(***************************************************************************)
\* #define BRIDGE_MAX_WRAPPERS 8
BRIDGE_MAX_WRAPPERS == 8

Tokens == 1..MaxToken
\* The data the state-only constructor passes on: DigitalInput(pin, function, nullptr, 0).
NoData == 0
\* What digitalPinToInterrupt returns for a pin without an external
\* interrupt: the negative value line 28 tests for.
NOT_AN_INTERRUPT == -1

VARIABLES
    \* ---- the fields of the DigitalInput instance
    interruptible,  \* bool interruptible
    asyncCount,     \* uint32_t asyncCount
    asyncState,     \* bool asyncState
    syncCount,      \* uint32_t syncCount
    syncState,      \* bool syncState
    function,       \* TRUE iff the member function is non-null (state-only handler)
    data,           \* Data data
    \* ---- the locals of Step and its position
    state, count, change, c,
    pc,
    \* ---- the platform
    rawLevel,         \* level of the line (BRIDGE_READ)
    pinHasInterrupt,  \* digitalPinToInterrupt(pin) >= 0
    attached,         \* the edge interrupt of the pin calls this instance's OnChange
    irqFlag,          \* an edge is latched and its interrupt not yet served
    ints,             \* global interrupt delivery (noInterrupts / interrupts)
    detachCalls,      \* the arguments of the detachInterrupt calls so far
    \* ---- history
    reported,   \* the handler invocations so far, in order
    edges,      \* number of physical edges so far
    isrCount,   \* number of OnChange runs so far
    isrSame,    \* the last OnChange read the level asyncState already had
    initLevel,  \* the raw level the constructor read
    stepNo,     \* number of Step calls begun (saturates at MaxSteps)
    h,          \* per-Step history, see StepEnter
    \* ---- the trampoline (meta.h)
    map,        \* static Map map[BRIDGE_MAX_WRAPPERS] and the cell after it
    uid,        \* static int uid
    once,       \* static bool once of Wrap
    layout,     \* what the build placed behind the table
    regs,       \* the Wrap calls so far: callback, token and returned entry
    lastCall,   \* the last call of a returned entry point
    \* ---- several interrupt-driven inputs, the k-th on pin k
    vector,     \* the routine attachInterrupt registered for each pin
    inst,       \* asyncCount of each input
    fired       \* number of edge interrupts served for each pin

fields == <<interruptible, asyncCount, asyncState, syncCount, syncState, function, data>>
locals == <<state, count, change, c>>
platform == <<rawLevel, pinHasInterrupt, attached, irqFlag, ints, detachCalls>>
history == <<reported, edges, isrCount, isrSame, initLevel, stepNo, h>>
inputs == <<vector, inst, fired>>
tramp == <<map, uid, once, layout, regs, lastCall, inputs>>
vars == <<fields, locals, pc, platform, history, tramp>>

\* The event the tracker counts: OnChange runs when interrupt-driven, edges otherwise.
ev == IF interruptible THEN isrCount ELSE edges

\* The reports made by the Step call in progress or, when idle, by the last one.
stepReports == SubSeq(reported, h.first + 1, Len(reported))

(***************************************************************************)
(* tools.h: BRIDGE_READ(base, mask), the masked port bit ? 1 : 0           *)
(***************************************************************************)
BRIDGE_READ == rawLevel

\* "syncState = !BRIDGE_READ(port, mask);": the macro body is not parenthesised,
\* so the negation applies to the masked bit, the condition of ?: ; the value
\* is 1 when the bit is clear and 0 when it is set.
NOT_BRIDGE_READ == IF ~rawLevel THEN TRUE ELSE FALSE
(***************************************************************************)
(* The tracker: DigitalInput.cpp                                           *)
(***************************************************************************)
\* Mutant: the first report is not forced.
InitialAsyncCount_Zero == 1 - 1

\* Line 32: asyncCount = 1 forces a report on the first Step.
InitialAsyncCount == 1

\* uint32_t arithmetic (DigitalInput.h: uint32_t asyncCount, syncCount).
UINT32_MOD == 2 ^ CounterBits
U32(n) == n % UINT32_MOD

\* Line 76: change = count - syncCount, in uint32_t.
Change(cnt, sync) == U32(cnt - sync)

\* Mutant: the catch-up takes the latest asynchronous state.
NextSyncState_Latest(sync, snapState) == snapState

\* Lines 91 and 96: syncState = !syncState. The snapshot state is not used.
NextSyncState(sync, snapState) == ~sync

\* Mutant: the catch-up ends one past the snapshot.
EndCount_PlusOne(cnt, live) == cnt + 1

\* Mutant: the catch-up ends at the live counter.
EndCount_Live(cnt, live) == live

\* Line 100: syncCount = count, the snapshot and not the live asyncCount.
EndCount(cnt, live) == cnt

\* Mutant: the polling-only path reports on every Step.
PollChange_NoCompare(st, sync, syncCnt) == <<1, (syncCnt + 1) % (2 ^ CounterBits)>>

\* Mutant: a level that differs is counted as two toggles.
PollChange_Twice(st, sync, syncCnt) ==
    IF st = sync THEN <<0, syncCnt>> ELSE <<2, (syncCnt + 2) % (2 ^ CounterBits)>>

\* Lines 79-85: the polling-only comparison; <<change, count>>.
PollChange(st, sync, syncCnt) ==
    IF st = sync THEN <<0, syncCnt>> ELSE <<1, U32(syncCnt + 1)>>

\* Lines 90 and 95: the loop index c is an int, which is narrower than
\* uint32_t on the 8-bit boards the register macros of tools.h are written
\* for and never wider; here it is one bit narrower than the counters.
IntBits == CounterBits - 1
INT_MAX == 2 ^ (IntBits - 1) - 1
INT_MIN == 0 - 2 ^ (IntBits - 1)

\* Lines 90 and 95: c++.  At INT_MAX the increment overflows a signed int,
\* which is undefined: the build may wrap to INT_MIN or keep counting in a
\* wider register.
IntSucc(cc) == IF cc = INT_MAX THEN {INT_MIN, INT_MAX + 1} ELSE {cc + 1}

\* Mutant: the loop runs while c <= change.
Replays_OffByOne(cc, chg, pending) == (cc % (2 ^ CounterBits)) <= chg

\* Mutant: the loop bound is read again from the live counters at each turn.
Replays_Live(cc, chg, pending) == pending > 0 /\ (cc % (2 ^ CounterBits)) < pending

\* Lines 88, 90 and 95: change > 0 and c < change, a comparison of the int c
\* with the uint32_t change, for which c is converted to uint32_t.  The
\* toggles pending in the live counters are not looked at.
Replays(cc, chg, pending) == chg > 0 /\ U32(cc) < chg

\* Lines 89-99: the handler to call is function when it is non-null, else
\* functionData with the token.
Report(st) ==
    IF function THEN [state |-> st, handler |-> "function", data |-> NoData]
                ELSE [state |-> st, handler |-> "functionData", data |-> data]

\* The state after the member initialiser list (lines 17-23): syncCount is 0,
\* the handler and token are the constructor's arguments, and asyncCount,
\* asyncState, syncState and interruptible are not initialised yet.  The
\* fields both branches of the constructor assign start at a fixed value that
\* is never read; asyncCount and asyncState start indeterminate.
InitTracker ==
    /\ syncCount = 0
    /\ \E f \in BOOLEAN :
          /\ function = f
          /\ data \in IF f THEN {NoData} ELSE Tokens
    /\ asyncCount \in 0..MaxGarbage
    /\ asyncState \in BOOLEAN
    /\ syncState = FALSE
    /\ interruptible = FALSE
    /\ state = FALSE /\ count = 0 /\ change = 0 /\ c = 0
    /\ pc = "ctor"
    /\ rawLevel \in BOOLEAN
    /\ pinHasInterrupt \in BOOLEAN
    /\ attached = FALSE
    /\ irqFlag = FALSE
    /\ ints = TRUE
    /\ detachCalls = <<>>
    /\ reported = <<>>
    /\ edges = 0
    /\ isrCount = 0
    /\ isrSame = FALSE
    /\ initLevel = FALSE
    /\ stepNo = 0
    /\ h = [ret |-> 0, endClean |-> TRUE, wasClean |-> TRUE, burst |-> 0,
            begin |-> 0, snap |-> 0, snapAsync |-> 0, entryState |-> FALSE,
            entryCount |-> 0, first |-> 0, retEdges |-> 0,
            entryInts |-> TRUE]

\* Lines 28-34: the interrupt branch of the constructor up to the level read.
CtorInterrupt ==
    /\ pc = "ctor"
    /\ pinHasInterrupt
    /\ interruptible' = TRUE
    /\ asyncCount' = InitialAsyncCount
    /\ asyncState' = BRIDGE_READ
    /\ syncState' = ~BRIDGE_READ
    /\ initLevel' = BRIDGE_READ
    /\ pc' = "attach"
    /\ UNCHANGED <<syncCount, function, data, locals, platform, tramp>>
    /\ UNCHANGED <<reported, edges, isrCount, isrSame, stepNo, h>>

\* Line 39: attachInterrupt(interruptId, meta::Wrap(OnChange, (Data) this), CHANGE).
CtorAttach ==
    /\ pc = "attach"
    /\ attached' = TRUE
    /\ pc' = "idle"
    /\ UNCHANGED <<fields, locals, rawLevel, pinHasInterrupt, irqFlag, ints, detachCalls>>
    /\ UNCHANGED <<history, tramp>>

\* Lines 40-45: the polling-only branch of the constructor.
CtorPolling ==
    /\ pc = "ctor"
    /\ ~pinHasInterrupt
    /\ interruptible' = FALSE
    /\ syncState' = NOT_BRIDGE_READ
    /\ initLevel' = BRIDGE_READ
    /\ h' = [h EXCEPT !.ret = edges]
    /\ pc' = "idle"
    /\ UNCHANGED <<asyncCount, asyncState, syncCount, function, data>>
    /\ UNCHANGED <<locals, platform, tramp>>
    /\ UNCHANGED <<reported, edges, isrCount, isrSame, stepNo>>

\* A physical edge of the line.  With the CHANGE interrupt attached the edge
\* is latched; one latch holds one edge.
Edge ==
    /\ edges < MaxEdges
    /\ rawLevel' = ~rawLevel
    /\ edges' = edges + 1
    /\ irqFlag' = (attached \/ irqFlag)
    /\ UNCHANGED <<fields, locals, pc, pinHasInterrupt, attached, ints, tramp, detachCalls>>
    /\ UNCHANGED <<reported, isrCount, isrSame, initLevel, stepNo, h>>

\* Mutant: a firing counts only when the level read differs.
OnChange_OnlyIfDiffers ==
    /\ asyncState' = rawLevel
    /\ asyncCount' = IF rawLevel # asyncState
                        THEN (asyncCount + 1) % (2 ^ CounterBits)
                        ELSE asyncCount
    /\ UNCHANGED <<interruptible, syncCount, syncState, function, data>>
    /\ UNCHANGED reported

\* Lines 58-61: OnChange, the body of the interrupt routine.
OnChange ==
    /\ asyncState' = BRIDGE_READ
    /\ asyncCount' = U32(asyncCount + 1)
    /\ UNCHANGED <<interruptible, syncCount, syncState, function, data>>
    /\ UNCHANGED reported

\* The edge interrupt is served: it preempts the main context wherever
\* delivery is enabled, runs OnChange (lines 53-56 forward to 58-61) to its
\* end and returns.
Interrupt ==
    /\ attached
    /\ irqFlag
    /\ ints
    /\ irqFlag' = FALSE
    /\ OnChange
    /\ isrCount' = isrCount + 1
    /\ isrSame' = (BRIDGE_READ = asyncState)
    /\ UNCHANGED <<locals, pc, rawLevel, pinHasInterrupt, attached, ints, tramp, detachCalls>>
    /\ UNCHANGED <<edges, initLevel, stepNo, h>>
\* Mutant: the snapshot is read with delivery left as it is.
noInterrupts_Omitted == ints' = ints

\* Line 72: noInterrupts().
noInterrupts == ints' = FALSE

\* Mutant: the critical section ends by restoring the delivery it found.
interrupts_Restore == ints' = h.entryInts

\* Line 75: interrupts().
interrupts == ints' = TRUE

Min(a, b) == IF a < b THEN a ELSE b

\* What the history records when a Step call begins.
StepEnter ==
    /\ stepNo' = Min(stepNo + 1, MaxSteps)
    /\ UNCHANGED <<reported, edges, isrCount, isrSame, initLevel>>

EnterHistory ==
    [h EXCEPT !.begin = ev, !.burst = ev - h.ret, !.wasClean = h.endClean,
              !.entryState = syncState, !.entryCount = syncCount,
              !.first = Len(reported), !.entryInts = ints]

\* Lines 63-72: Step is called on an interrupt-driven instance and suspends
\* interrupt delivery.
StepNoInterrupts ==
    /\ pc = "idle"
    /\ interruptible
    /\ noInterrupts
    /\ pc' = "rdstate"
    /\ StepEnter
    /\ h' = EnterHistory
    /\ UNCHANGED <<fields, locals, rawLevel, pinHasInterrupt, attached, irqFlag, detachCalls>>
    /\ UNCHANGED tramp

\* Line 73: state = asyncState.
StepReadState ==
    /\ pc = "rdstate"
    /\ state' = asyncState
    /\ pc' = "rdcount"
    /\ UNCHANGED <<fields, count, change, c, platform, history, tramp>>

\* Line 74: count = asyncCount.
StepReadCount ==
    /\ pc = "rdcount"
    /\ count' = asyncCount
    /\ h' = [h EXCEPT !.snap = ev, !.snapAsync = asyncCount]
    /\ pc' = "sei"
    /\ UNCHANGED <<fields, state, change, c, platform, tramp>>
    /\ UNCHANGED <<reported, edges, isrCount, isrSame, initLevel, stepNo>>

\* Lines 75-76 and the start of the loop: interrupts(), change = count - syncCount.
StepInterrupts ==
    /\ pc = "sei"
    /\ interrupts
    /\ change' = Change(count, syncCount)
    /\ c' = 0
    /\ pc' = "loop"
    /\ UNCHANGED <<fields, state, count, rawLevel, pinHasInterrupt, attached, irqFlag, detachCalls>>
    /\ UNCHANGED <<history, tramp>>

\* Lines 77-86: Step is called on a polling-only instance and reads the level.
StepPoll ==
    /\ pc = "idle"
    /\ ~interruptible
    /\ state' = BRIDGE_READ
    /\ change' = PollChange(BRIDGE_READ, syncState, syncCount)[1]
    /\ count' = PollChange(BRIDGE_READ, syncState, syncCount)[2]
    /\ c' = 0
    /\ pc' = "loop"
    /\ StepEnter
    /\ h' = [EnterHistory EXCEPT !.snap = ev, !.snapAsync = asyncCount]
    /\ UNCHANGED <<fields, platform, tramp>>

\* Lines 88-98: one turn of the loop up to the call of the handler, which
\* runs with the interrupt delivery Step left.
StepInvoke ==
    /\ pc = "loop"
    /\ Replays(c, change, U32(asyncCount - syncCount))
    /\ syncState' = NextSyncState(syncState, state)
    /\ reported' = Append(reported, Report(syncState'))
    /\ pc' = "handler"
    /\ UNCHANGED <<interruptible, asyncCount, asyncState, syncCount, function, data>>
    /\ UNCHANGED <<locals, platform, tramp>>
    /\ UNCHANGED <<edges, isrCount, isrSame, initLevel, stepNo, h>>

\* The handler returns; c++.
HandlerReturn ==
    /\ pc = "handler"
    /\ c' \in IntSucc(c)
    /\ pc' = "loop"
    /\ UNCHANGED <<fields, state, count, change, platform, history, tramp>>

\* Lines 88 and 100-102: the loop is over (or change is 0); syncCount = count
\* when change > 0; Step returns.
StepReturn ==
    /\ pc = "loop"
    /\ ~Replays(c, change, U32(asyncCount - syncCount))
    /\ syncCount' = IF change > 0 THEN EndCount(count, asyncCount) ELSE syncCount
    /\ h' = [h EXCEPT !.ret = ev, !.endClean = (ev = h.snap), !.retEdges = edges]
    /\ pc' = "idle"
    /\ UNCHANGED <<interruptible, asyncCount, asyncState, syncState, function, data>>
    /\ UNCHANGED <<locals, platform, tramp>>
    /\ UNCHANGED <<reported, edges, isrCount, isrSame, initLevel, stepNo>>

\* digitalPinToInterrupt(pin), lines 27 and 50: the interrupt of the pin (the
\* tracker's pin has interrupt 0), or NOT_AN_INTERRUPT.
digitalPinToInterrupt == IF pinHasInterrupt THEN 0 ELSE NOT_AN_INTERRUPT

\* Mutant: the destructor leaves the interrupt attached.
detachInterrupt_Omitted == attached' = attached /\ detachCalls' = detachCalls

\* Line 50: detachInterrupt(digitalPinToInterrupt(pin)), called whatever
\* interruptible is; for a pin without an interrupt the argument is
\* NOT_AN_INTERRUPT and nothing is detached.
detachInterrupt ==
    /\ attached' = IF pinHasInterrupt THEN FALSE ELSE attached
    /\ detachCalls' = Append(detachCalls, digitalPinToInterrupt)

\* Lines 48-51: the destructor, run from the main context between Step calls.
Destroy ==
    /\ pc = "idle"
    /\ detachInterrupt
    /\ pc' = "dead"
    /\ UNCHANGED <<fields, locals, rawLevel, pinHasInterrupt, irqFlag, ints>>
    /\ UNCHANGED <<history, tramp>>

\* The caller of Step (line 63) suspends interrupt delivery itself before it
\* calls Step, as code that runs Step inside its own critical section does.
CallerNoInterrupts ==
    /\ pc = "idle"
    /\ ints
    /\ noInterrupts
    /\ UNCHANGED <<fields, locals, pc, rawLevel, pinHasInterrupt, attached, irqFlag, detachCalls>>
    /\ UNCHANGED <<history, tramp>>

\* Lines 104-106: GetState() returns syncState.
GetState == syncState

(***************************************************************************)
(* The trampoline: meta.h                                                  *)
(***************************************************************************)
\* Function pointers are numbers: 0 is the null pointer of Map() (line 30),
\* a callback of type FunctionData is one of Callbacks, and the entry point
\* Wrapper<id> is WrapperFn(id), one distinct non-null value for each id.
NullFn == 0
Callbacks == {1, 2}
WrapperFn(id) == id + 1
\* What a load from memory that is not the table can return as a function
\* pointer: null, or a value that is no entry point of the table.
StrayEntries == {NullFn, WrapperFn(BRIDGE_MAX_WRAPPERS)}

\* The table is map[0..BRIDGE_MAX_WRAPPERS - 1]; map[BRIDGE_MAX_WRAPPERS] is
\* the memory behind it.
Slots == 0..(BRIDGE_MAX_WRAPPERS - 1)

\* What the build placed at the address of map[BRIDGE_MAX_WRAPPERS].function:
\* memory nothing reads, or the static uid (lines 33-34 fix no order).
Layouts == {"unused", "uid"}

\* A function address read back as an int is no index of the table.
StrayInts == {-1, BRIDGE_MAX_WRAPPERS + 1}

\* The statics of meta.h before the first Wrap call: uid = 0, every Map
\* zeroed by its constructor, once not yet initialised.
InitStatics ==
    /\ map = [i \in 0..BRIDGE_MAX_WRAPPERS |->
                 [data |-> 0, functionData |-> NullFn, function |-> NullFn]]
    /\ uid = 0
    /\ once = FALSE
    /\ regs = <<>>
    /\ lastCall = [via |-> 0, functionData |-> NullFn, data |-> 0]

\* Lines 41-51: expansion<id>() stores Wrapper<id> in map[id].function and
\* goes on with id - 1 down to expansion<0>.
RECURSIVE expansion(_, _)
expansion(id, m) ==
    IF id = 0
        THEN [m EXCEPT ![0].function = WrapperFn(0)]
        ELSE expansion(id - 1, [m EXCEPT ![id].function = WrapperFn(id)])

\* Line 68: static bool once = expansion<BRIDGE_MAX_WRAPPERS>(), run by the
\* first call only.
Expanded(m) == IF once THEN m ELSE expansion(BRIDGE_MAX_WRAPPERS, m)

\* The values uid can have after line 68: the store to
\* map[BRIDGE_MAX_WRAPPERS].function is a store to uid where uid lies there.
UidAfterExpansion ==
    IF ~once /\ layout = "uid" THEN StrayInts ELSE {uid}

\* Lines 66-72: Wrap(functionData, data) with token the k-th object.  With
\* uid in the table the slot is filled and its entry point returned; with
\* uid outside it the stores and the load miss the table, and what is
\* returned is whatever that memory holds (followed for MaxWild calls).
Wrap(fd, token) ==
    /\ once' = TRUE
    /\ \E u \in UidAfterExpansion :
          /\ uid' = u + 1
          /\ IF u \in Slots
                THEN /\ map' = [Expanded(map) EXCEPT ![u].functionData = fd,
                                                     ![u].data = token]
                     /\ regs' = Append(regs, [functionData |-> fd, data |-> token,
                                              entry |-> Expanded(map)[u].function])
                ELSE /\ Len(regs) < MaxWild
                     /\ map' = Expanded(map)
                     /\ \E e \in StrayEntries :
                           regs' = Append(regs, [functionData |-> fd, data |-> token,
                                                 entry |-> e])
    /\ UNCHANGED <<layout, lastCall>>

\* A caller registers the next (callback, token) pair; at most
\* BRIDGE_MAX_WRAPPERS calls are made.  The token of the k-th call is k, as
\* the address of the k-th object would be.
WrapCall ==
    /\ Len(regs) < BRIDGE_MAX_WRAPPERS
    /\ \E fd \in Callbacks : Wrap(fd, Len(regs) + 1)
    /\ UNCHANGED <<fields, locals, pc, platform, history, inputs>>

\* Lines 36-39: Wrapper<id>() calls map[id].functionData(map[id].data).  A
\* call through a pointer that is no entry point of the table, or through
\* Wrapper<BRIDGE_MAX_WRAPPERS>, reads memory that is not the table's.
Wrapper(id) == [functionData |-> map[id].functionData, data |-> map[id].data]

\* The entry point returned by the i-th Wrap call is called.
CallEntry ==
    /\ \E i \in 1..Len(regs) :
          LET e == regs[i].entry IN
          IF \E id \in Slots : e = WrapperFn(id)
              THEN LET id == CHOOSE id \in Slots : e = WrapperFn(id) IN
                   lastCall' = [via |-> i] @@ Wrapper(id)
              ELSE \E fd \in {NullFn} \cup Callbacks :
                      lastCall' = [via |-> i, functionData |-> fd, data |-> 0]
    /\ UNCHANGED <<map, uid, once, layout, regs, inputs>>
    /\ UNCHANGED <<fields, locals, pc, platform, history>>

(***************************************************************************)
(* Several interrupt-driven inputs: the k-th constructed is on pin k and   *)
(* its address is the token k.                                             *)
(***************************************************************************)
\* Bound on the edge interrupts served, all pins together.
MaxFirings == 3

\* The static DigitalInput::OnChange(Data) of lines 53-56, the callback every
\* constructor passes to Wrap (line 39).
OnChangeFn == 1

Pins == 1..BRIDGE_MAX_WRAPPERS

\* No input constructed, no routine attached.
InitInputs ==
    /\ vector = [p \in Pins |-> [set |-> FALSE, fn |-> NullFn]]
    /\ inst = [k \in Pins |-> 0]
    /\ fired = [p \in Pins |-> 0]

RECURSIVE Total(_, _)
Total(f, n) == IF n = 0 THEN 0 ELSE f[n] + Total(f, n - 1)

\* Lines 28-39 for the next input: asyncCount = 1, then
\* attachInterrupt(interruptId, meta::Wrap(OnChange, (Data) this), CHANGE).
ConstructInput ==
    /\ Len(regs) < BRIDGE_MAX_WRAPPERS
    /\ LET k == Len(regs) + 1 IN
          /\ Wrap(OnChangeFn, k)
          /\ inst' = [inst EXCEPT ![k] = InitialAsyncCount]
          /\ vector' = [vector EXCEPT ![k] = [set |-> TRUE, fn |-> regs'[k].entry]]
    /\ UNCHANGED fired
    /\ UNCHANGED <<fields, locals, pc, platform, history>>

\* The edge interrupt of pin p is served: the routine attached for p is
\* called.  An entry point of the table calls its slot's callback with its
\* slot's token (lines 36-39), and OnChange of that input counts the toggle
\* (lines 53-61).  A call through anything else (a pointer that is no entry
\* point, a slot never filled) runs no code of the program by rule: it may
\* count a toggle on any input constructed so far, or on none.
PinInterrupt ==
    /\ Total(fired, BRIDGE_MAX_WRAPPERS) < MaxFirings
    /\ \E p \in Pins :
          /\ vector[p].set
          /\ fired' = [fired EXCEPT ![p] = @ + 1]
          /\ LET e == vector[p].fn
                 routed == \E id \in Slots : /\ e = WrapperFn(id)
                                              /\ Wrapper(id).functionData = OnChangeFn
             IN  IF routed
                     THEN LET id == CHOOSE id \in Slots : e = WrapperFn(id) IN
                          inst' = [inst EXCEPT ![Wrapper(id).data] = U32(@ + 1)]
                     ELSE \E k \in 0..Len(regs) :
                             inst' = IF k = 0 THEN inst
                                     ELSE [inst EXCEPT ![k] = U32(@ + 1)]
    /\ UNCHANGED <<map, uid, once, layout, regs, lastCall, vector>>
    /\ UNCHANGED <<fields, locals, pc, platform, history>>

\* Lines 48-51 for input k: detachInterrupt for its pin; the statics of
\* meta.h are not touched.
DestroyInput ==
    /\ \E k \in Pins :
          /\ vector[k].set
          /\ vector' = [vector EXCEPT ![k] = [set |-> FALSE, fn |-> NullFn]]
    /\ UNCHANGED <<map, uid, once, layout, regs, lastCall, inst, fired>>
    /\ UNCHANGED <<fields, locals, pc, platform, history>>

\* One tracker; its registration is the platform's (CtorAttach), the statics
\* of the trampoline rest.
Init ==
    /\ InitTracker
    /\ InitStatics
    /\ InitInputs
    /\ layout = "unused"

Next ==
    \/ CtorInterrupt
    \/ CtorAttach
    \/ CtorPolling
    \/ Edge
    \/ Interrupt
    \/ StepNoInterrupts
    \/ StepReadState
    \/ StepReadCount
    \/ StepInterrupts
    \/ StepPoll
    \/ StepInvoke
    \/ HandlerReturn
    \/ StepReturn
    \/ Destroy

Spec == Init /\ [][Next]_vars

\* The steps of a Step call once it has begun.  The main context keeps
\* running and handlers return, so a begun Step call goes on.
StepRuns ==
    \/ StepReadState
    \/ StepReadCount
    \/ StepInterrupts
    \/ StepInvoke
    \/ HandlerReturn
    \/ StepReturn

SpecFair == Spec /\ WF_vars(StepRuns)

\* An interrupt-driven instance late in its life, between two Step calls:
\* constructed and attached long ago, with asyncCount any value of the
\* counter and syncCount at its start or just before its wrap, so that every
\* difference count - syncCount occurs, across the wrap too.  The history
\* starts here.
InitLoop ==
    /\ interruptible = TRUE
    /\ syncCount \in {0, UINT32_MOD - 2}
    /\ asyncCount \in 0..(UINT32_MOD - 1)
    /\ rawLevel = FALSE
    /\ asyncState = rawLevel
    /\ syncState \in BOOLEAN
    /\ function = TRUE
    /\ data = NoData
    /\ state = FALSE /\ count = 0 /\ change = 0 /\ c = 0
    /\ pc = "idle"
    /\ pinHasInterrupt = TRUE
    /\ attached = TRUE
    /\ irqFlag = FALSE
    /\ ints = TRUE
    /\ detachCalls = <<>>
    /\ reported = <<>>
    /\ edges = 0
    /\ isrCount = 0
    /\ isrSame = FALSE
    /\ initLevel = FALSE
    /\ stepNo = 0
    /\ h = [ret |-> 0, endClean |-> TRUE, wasClean |-> TRUE, burst |-> 0,
            begin |-> 0, snap |-> 0, snapAsync |-> 0, entryState |-> FALSE,
            entryCount |-> 0, first |-> 0, retEdges |-> 0,
            entryInts |-> TRUE]
    /\ InitStatics
    /\ InitInputs
    /\ layout = "unused"

NextLoop ==
    \/ Edge
    \/ Interrupt
    \/ StepNoInterrupts
    \/ StepReadState
    \/ StepReadCount
    \/ StepInterrupts
    \/ StepInvoke
    \/ HandlerReturn
    \/ StepReturn

SpecLoop == InitLoop /\ [][NextLoop]_vars

\* The tracker with a caller that may suspend interrupt delivery between
\* Step calls.
NextMasked ==
    \/ CtorInterrupt
    \/ CtorAttach
    \/ CtorPolling
    \/ Edge
    \/ Interrupt
    \/ CallerNoInterrupts
    \/ StepNoInterrupts
    \/ StepReadState
    \/ StepReadCount
    \/ StepInterrupts
    \/ StepPoll
    \/ StepInvoke
    \/ HandlerReturn
    \/ StepReturn
    \/ Destroy

SpecMasked == Init /\ [][NextMasked]_vars
\* The trampoline alone: the tracker's variables rest at their initial
\* values of an instance on a pin without interrupt.
InitWrap ==
    /\ InitStatics
    /\ InitInputs
    /\ layout \in Layouts
    /\ InitTracker
    /\ function /\ ~asyncState /\ asyncCount = 0 /\ ~rawLevel /\ ~pinHasInterrupt

NextWrap ==
    \/ WrapCall
    \/ CallEntry

SpecWrap == InitWrap /\ [][NextWrap]_vars

\* Several inputs and the trampoline: inputs are constructed, their pins
\* interrupt, inputs are destroyed.
NextMulti ==
    \/ ConstructInput
    \/ PinInterrupt
    \/ DestroyInput

SpecMulti == InitWrap /\ [][NextMulti]_vars

\* C8: the entry points returned are non-null and pairwise distinct, and a
\* call of the i-th calls the i-th registered callback with the i-th token,
\* whenever it is made.
C8_EntriesRoute ==
    /\ \A i \in 1..Len(regs) : regs[i].entry # NullFn
    /\ \A i, j \in 1..Len(regs) : i # j => regs[i].entry # regs[j].entry
    /\ lastCall.via \in 1..Len(regs) =>
          /\ lastCall.functionData = regs[lastCall.via].functionData
          /\ lastCall.data = regs[lastCall.via].data
(***************************************************************************)
(* The claims about the tracker, checked under Spec.                       *)
(***************************************************************************)
Settled == pc \in {"idle", "dead"} /\ stepNo >= 1

\* The k-th report of an interrupt-driven instance: the level the
\* constructor read for odd k, its negation for even k.
Alternation(k) == IF k % 2 = 1 THEN initLevel ELSE ~initLevel

\* C1: in interrupt-driven mode the states passed to the handler are the
\* negations of the negated initial level, one after the other; there is at
\* no time more than one report per OnChange run plus the forced first one,
\* none beyond the runs the Step's snapshot counted, and when a Step has
\* returned exactly one report per run its snapshot counted plus the first.
C1_ReportsFollowToggles ==
    interruptible =>
        /\ \A k \in 1..Len(reported) :
              reported[k] = Report(Alternation(k))
        /\ Len(reported) <= isrCount + 1
        /\ Len(reported) <= h.snap + 1
        /\ Settled => Len(reported) = h.snap + 1

\* C1 witness: OnChange ran while the previous Step was replaying, and the
\* later Step delivered that toggle too.
C1_Witness ==
    /\ interruptible
    /\ pc = "idle"
    /\ ~h.wasClean
    /\ isrCount >= 2
    /\ Len(reported) = isrCount + 1

C3_CriticalSection ==
    interruptible =>
        /\ ~ints <=> pc \in {"rdstate", "rdcount", "sei"}
        /\ pc = "rdcount" => state = asyncState
        /\ pc = "sei" => state = asyncState /\ count = asyncCount
        /\ pc \in {"loop", "handler"} => ints

\* C3 witness: an edge arrived between the two reads and is held back.
C3_Witness ==
    /\ interruptible
    /\ pc = "sei"
    /\ irqFlag
    /\ ~ints
    /\ rawLevel # state

\* C4 as stated: with no OnChange run, the first Step reports the negation
\* of the level the constructor read, the second nothing.
C4_Original ==
    (interruptible /\ pc = "idle" /\ isrCount = 0) =>
        /\ stepNo = 1 => stepReports = <<Report(~initLevel)>>
        /\ stepNo = 2 => stepReports = <<>>

\* C4 amended: with no OnChange run, the first Step of an interrupt-driven
\* instance invokes the handler exactly once and reports the raw level the
\* constructor read; the second Step invokes nothing.
C4_FirstStepReportsLevel ==
    (interruptible /\ pc = "idle" /\ isrCount = 0) =>
        /\ stepNo = 1 => stepReports = <<Report(initLevel)>> /\ reported = stepReports
        /\ stepNo = 2 => stepReports = <<>> /\ Len(reported) = 1

\* C4 witness: the second Step returned, no OnChange has run.
C4_Witness ==
    /\ interruptible
    /\ pc = "idle"
    /\ isrCount = 0
    /\ stepNo = 2
    /\ reported = <<Report(initLevel)>>

\* C5: the first Step of a polling-only instance invokes the handler
\* exactly once and reports the level the constructor read.
C5_FirstPollReports ==
    (~interruptible /\ pc = "idle" /\ stepNo = 1) =>
        stepReports = <<Report(initLevel)>>

\* The burst of C6 and C7: the line started low, the tracker holds low, the
\* previous Step saw everything that happened before it returned, and two
\* events lie between its return and this Step.
Burst ==
    /\ pc = "idle"
    /\ stepNo >= 2
    /\ initLevel = FALSE
    /\ h.entryState = FALSE
    /\ h.wasClean
    /\ h.burst = 2

\* C6 as stated: the Step after the burst reports high once.
C6_Original ==
    (~interruptible /\ Burst) => stepReports = <<Report(TRUE)>>

\* C6 amended: on a polling-only line that started low, when the raw level
\* toggles exactly twice between two consecutive Step calls the second Step
\* invokes no handler: the two toggles cancel and the burst is lost.
C6_BurstLost ==
    (~interruptible /\ Burst) => stepReports = <<>>

\* C6 witness: such a Step has returned.
C6_Witness ==
    /\ ~interruptible
    /\ Burst
    /\ edges >= 2

\* C7: the Step after two OnChange runs reports high and then low.
C7_BurstReplayed ==
    (interruptible /\ Burst /\ h.entryCount >= 1) =>
        stepReports = <<Report(TRUE), Report(FALSE)>>

\* C7 witness: such a Step has returned; the net level is unchanged.
C7_Witness ==
    /\ interruptible
    /\ Burst
    /\ h.entryCount >= 1
    /\ syncState = h.entryState

\* C9: a run of OnChange stores the level read, adds exactly one to
\* asyncCount, leaves syncState, syncCount, the handler and the token alone
\* and reports nothing; a report is made only by the loop of Step.
C9_OnChangeFrame ==
    [][/\ isrCount' # isrCount =>
             /\ asyncCount' = (asyncCount + 1) % UINT32_MOD
             /\ asyncState' = rawLevel
             /\ UNCHANGED <<syncState, syncCount, function, data, reported>>
       /\ reported' # reported => pc = "loop" /\ pc' = "handler"]_vars

\* C9 witness: OnChange read the level asyncState already had and counted it.
C9_Witness ==
    /\ isrSame
    /\ isrCount >= 1
    /\ asyncCount = isrCount + 1

\* C10: once an interrupt-driven instance is destroyed OnChange does not run
\* for it and no handler is invoked.
C10_NoCallAfterDestroy ==
    [][pc = "dead" =>
          /\ isrCount' = isrCount
          /\ asyncCount' = asyncCount
          /\ asyncState' = asyncState
          /\ reported' = reported]_vars

\* C10 witness: the line changed after the destruction of an
\* interrupt-driven instance whose routine had run before.
C10_Witness ==
    /\ pc = "dead"
    /\ interruptible
    /\ isrCount >= 1
    /\ ~irqFlag
    /\ rawLevel # asyncState

\* C11: in interrupt-driven mode, when a Step has returned with syncCount
\* equal to asyncCount and no edge has occurred since, GetState() is the raw
\* level of the pin (no interrupt is left pending either, so that every edge
\* the interrupt subsystem has seen has been served).
C11_GetStateIsLevel ==
    (/\ interruptible
     /\ pc = "idle"
     /\ stepNo >= 1
     /\ syncCount = asyncCount
     /\ ~irqFlag
     /\ edges = h.retEdges) => GetState = rawLevel

\* C12: pre-generation fills the entry point of exactly the slots
\* 0..BRIDGE_MAX_WRAPPERS - 1 and stores to no element outside the table, and
\* every entry point returned by Wrap is the entry point of one of these
\* slots.
C12_IndicesInTable ==
    /\ \A i \in DOMAIN map : map[i].function # NullFn => i \in Slots
    /\ once => \A id \in Slots : map[id].function = WrapperFn(id)
    /\ \A i \in 1..Len(regs) : \E id \in Slots : regs[i].entry = WrapperFn(id)

\* C13: the slot counter is the number of Wrap calls so far, whatever was
\* destroyed since: the i-th call (from 0) got the entry point of slot i, and
\* slot i still holds the callback and the token of that call.
C13_SlotCounter ==
    /\ uid = Len(regs)
    /\ \A i \in 1..Len(regs) :
          /\ regs[i].entry = WrapperFn(i - 1)
          /\ map[i - 1].functionData = regs[i].functionData
          /\ map[i - 1].data = regs[i].data

\* C14: every input has counted exactly the edge interrupts of its own pin
\* (on top of the 1 its constructor sets), however many inputs were
\* constructed before or after it.
C14_RoutedToOwnInstance ==
    \A k \in 1..Len(regs) : inst[k] = U32(InitialAsyncCount + fired[k])

\* C15: a polling-only Step invokes the handler at most once, and exactly
\* when the raw level it read differs from syncState; it then reports that
\* level, holds it and adds one to syncCount, and otherwise changes neither.
\* After an even number of edges since the previous Step read the line it
\* invokes nothing, after an odd number it invokes the handler once.
C15_PollAtMostOnce ==
    (~interruptible /\ stepNo >= 1) =>
        /\ Len(stepReports) <= 1
        /\ pc = "idle" =>
              /\ Len(stepReports) = 1 <=> state # h.entryState
              /\ Len(stepReports) = 1 =>
                    /\ stepReports = <<Report(state)>>
                    /\ syncState = state
                    /\ syncCount = U32(h.entryCount + 1)
              /\ Len(stepReports) = 0 =>
                    /\ syncState = h.entryState
                    /\ syncCount = h.entryCount
              /\ (stepNo >= 2 /\ h.wasClean) =>
                    (Len(stepReports) = 0 <=> h.burst % 2 = 0)

\* C15 witness: a polling-only Step that followed a burst of three edges has
\* returned after one invocation.
C15_Witness ==
    /\ ~interruptible
    /\ pc = "idle"
    /\ stepNo >= 2
    /\ h.wasClean
    /\ h.burst = 3
    /\ Len(stepReports) = 1

\* The positions inside a Step call.
InStep == pc \in {"rdstate", "rdcount", "sei", "loop", "handler"}

\* C16: a Step that finds change = 0 invokes no handler and leaves syncState
\* and syncCount as they were, and no step of Step writes asyncState or
\* asyncCount.
C16_ZeroChangeNoOp ==
    /\ []((pc = "idle" /\ stepNo >= 1 /\ change = 0) =>
             /\ stepReports = <<>>
             /\ syncState = h.entryState
             /\ syncCount = h.entryCount)
    /\ [][((InStep \/ (pc = "idle" /\ pc' \in {"rdstate", "loop"})) /\ pc' # pc) =>
             (asyncState' = asyncState /\ asyncCount' = asyncCount)]_vars

\* C16 witness: an interrupt-driven Step that found nothing new has returned
\* after an earlier Step had reported.
C16_Witness ==
    /\ interruptible
    /\ pc = "idle"
    /\ stepNo >= 2
    /\ change = 0
    /\ Len(reported) >= 1
    /\ stepReports = <<>>

\* C17: the destruction of a polling-only instance issues no unregister
\* request to the interrupt subsystem and changes no registration.
C17_PollingDestroySilent ==
    (pc = "dead" /\ ~interruptible) => (detachCalls = <<>> /\ ~attached)

\* C18: every Step call that has begun returns, and the handler invocations
\* of an interrupt-driven Step are as many as the snapshot count minus
\* syncCount at its start, never more while it runs; the toggles counted
\* after the snapshot are still pending when it returns.
C18_StepBounded ==
    /\ [](InStep => <>(pc = "idle"))
    /\ []((interruptible /\ stepNo >= 1 /\ pc \in {"loop", "handler", "idle"}) =>
             /\ Len(stepReports) <= U32(h.snapAsync - h.entryCount)
             /\ pc = "idle" =>
                   /\ Len(stepReports) = U32(h.snapAsync - h.entryCount)
                   /\ U32(asyncCount - syncCount) = isrCount - h.snap)

\* C18 witness: a Step has returned after two invocations during which
\* OnChange ran.
C18_Witness ==
    /\ interruptible
    /\ pc = "idle"
    /\ stepNo >= 1
    /\ Len(stepReports) = 2
    /\ ~h.endClean
    /\ asyncCount # syncCount

\* C19: for every pair of counter values, a Step of an interrupt-driven
\* instance has made exactly (count - syncCount) mod 2^CounterBits handler
\* invocations when it returns, and neither counter ever decreases.
C19_ExactReplay ==
    /\ []((interruptible /\ pc = "idle" /\ stepNo >= 1) =>
             Len(stepReports) = U32(h.snapAsync - h.entryCount))
    /\ [][asyncCount' >= asyncCount /\ syncCount' >= syncCount]_vars

\* C20 as stated: an interrupt-driven Step returns with interrupt delivery
\* as it was when Step was entered.
C20_Original ==
    [][(interruptible /\ pc = "loop" /\ pc' = "idle") => ints' = h.entryInts]_vars

\* C20 amended: an interrupt-driven Step returns with interrupt delivery
\* enabled, whether it was entered with delivery enabled or suspended; a
\* polling-only Step returns with delivery as it was on entry.
C20_StepEnablesDelivery ==
    [][(pc = "loop" /\ pc' = "idle") =>
          IF interruptible THEN ints' ELSE ints' = h.entryInts]_vars

\* C20 witness: an interrupt-driven Step entered with delivery suspended has
\* returned, and delivery is enabled.
C20_Witness ==
    /\ interruptible
    /\ pc = "idle"
    /\ stepNo >= 1
    /\ ~h.entryInts
    /\ ints
====
